---- MODULE Spec2Model ----
(***************************************************************************)
(* Graph construction of the complex-valued ResNets of                     *)
(* complex_networks_keras_tf1/models: the residual block builders          *)
(* (resnet_blocks_3d.py) and the network assembler ResNet2D with its       *)
(* depth presets (resnet_models_2d.py).                                    *)
(*                                                                         *)
(* A layer is a record; the tensor a layer produces is identified by the   *)
(* position of the layer in the list of layers created so far, and 0 is    *)
(* the network (or block) input.  Python strings are TLA+ strings built    *)
(* character by character; an optional argument is <<>> (None) or <<v>>.   *)
(***************************************************************************)
EXTENDS Naturals, Sequences, FiniteSets, TLC

VARIABLES
    pc,         \* position in the constructor / builder being executed
    call,       \* the constructor call being executed: class and arguments
    args,       \* arguments ResNet2D.__init__ received (presets resolved)
    layers,     \* layers instantiated so far, in creation order
    x_complex,  \* tensor currently held by x_complex (inputs)
    n_filters,  \* running filter count of ResNet2D.__init__
    stage_id,   \* loop variable of the stage loop
    block_id,   \* loop variable of the block loop
    outputs,    \* per-stage feature tensors collected so far
    calls,      \* log of block_func invocations of this construction
    model,      \* <<>> until keras.Model.__init__ ran, then <<its outputs>>
    uid,        \* keras' per-session counter for auto-named Flatten layers
    models,     \* constructions completed earlier in this session
    fn          \* closure returned by the last direct block-builder call

vars == <<pc, call, args, layers, x_complex, n_filters, stage_id, block_id,
          outputs, calls, model, uid, models, fn>>

----------------------------------------------------------------------------
(* Bounds of the exploration *)

\* stage counts 1..MaxStages in explicit num_blocks lists
MaxStages == 2
\* block counts 0..MaxBlocks per stage in explicit num_blocks lists
MaxBlocks == 2
\* stage indices 0..MaxStage in direct block-builder calls
MaxStage == 2
\* block indices 0..MaxBlock in direct block-builder calls
MaxBlock == 27
\* constructions per session
MaxBuilds == 2

----------------------------------------------------------------------------
(* Python values *)

None == <<>>
Some(v) == <<v>>

Digit == <<"0", "1", "2", "3", "4", "5", "6", "7", "8", "9">>

\* str(n) of a non-negative int: its decimal digits
RECURSIVE str(_)
str(n) == IF n < 10 THEN Digit[n + 1]
          ELSE str(n \div 10) \o Digit[(n % 10) + 1]

\* ord('a')
ord_a == 97

\* the characters with code points 97..126
Ascii97 == <<"a", "b", "c", "d", "e", "f", "g", "h", "i", "j", "k", "l", "m",
             "n", "o", "p", "q", "r", "s", "t", "u", "v", "w", "x", "y", "z",
             "{", "|", "}", "~">>

\* chr(n) for the code points the model reaches
chr(n) == Ascii97[n - 96]

\* the lowercase letters, in order
Lowercase == SubSeq(Ascii97, 1, 26)

\* the tag of line 120
complex_prefix == "complex_"

\* line 120: s.startswith('complex_')
startswith_complex(s) ==
    /\ Len(s) >= Len(complex_prefix)
    /\ SubSeq(s, 1, Len(complex_prefix)) = complex_prefix

strip_complex_keeps_tag(s) == s

\* line 121: s[len('complex_'):]
strip_complex(s) == SubSeq(s, Len(complex_prefix) + 1, Len(s))

RECURSIVE Pow2(_)
Pow2(n) == IF n = 0 THEN 1 ELSE 2 * Pow2(n - 1)

RECURSIVE SumSeq(_)
SumSeq(s) == IF s = <<>> THEN 0 ELSE Head(s) + SumSeq(Tail(s))

----------------------------------------------------------------------------
(* Layers *)

\* a layer constructor call applied to its input tensor(s)
Layer(kind, name, inputs, filters, kernel_size, strides, activation) ==
    [kind |-> kind, name |-> name, inputs |-> inputs, filters |-> filters,
     kernel_size |-> kernel_size, strides |-> strides,
     activation |-> activation]

ZeroPadding3D(name, x) ==
    Layer("ZeroPadding3D", name, <<x>>, 0, <<>>, <<>>, "")

ComplexConv3D(filters, kernel_size, strides, name, x) ==
    Layer("ComplexConv3D", name, <<x>>, filters, kernel_size, strides, "")

ComplexBatchNormalization(name, x) ==
    Layer("ComplexBatchNormalization", name, <<x>>, 0, <<>>, <<>>, "")

\* layer_activation(x, activation, name=...): one activation layer of that name
layer_activation(x, activation, name) ==
    Layer("layer_activation", name, <<x>>, 0, <<>>, <<>>, activation)

add(name, a, b) ==
    Layer("add", name, <<a, b>>, 0, <<>>, <<>>, "")

----------------------------------------------------------------------------
(* Block builders, resnet_blocks_3d.py *)

resolve_stride_swapped(stride, stage, block) ==
    IF stride = None
    THEN IF block # 0 \/ stage = 0 THEN 2 ELSE 1
    ELSE stride[1]

\* lines 53-57 and 136-140: an explicit stride wins, else derived
resolve_stride(stride, stage, block) ==
    IF stride = None
    THEN IF block # 0 \/ stage = 0 THEN 1 ELSE 2
    ELSE stride[1]

block_char_no_index(block, numerical_name) ==
    IF block > 0 /\ numerical_name
    THEN "b"
    ELSE chr(ord_a + block)

block_char_always_letter(block, numerical_name) ==
    chr(ord_a + block)

\* lines 61-64 and 144-147
block_char(block, numerical_name) ==
    IF block > 0 /\ numerical_name
    THEN "b" \o str(block)
    ELSE chr(ord_a + block)

stage_char_no_offset(stage) == str(stage)

\* line 66 and line 149
stage_char(stage) == str(stage + 2)

\* what the inner function f closes over
Closure(builder, filters, stage, block, kernel_size, numerical_name, stride, activation) ==
    [builder |-> builder, filters |-> filters, stage |-> stage,
     block |-> block, kernel_size |-> kernel_size,
     numerical_name |-> numerical_name,
     stride |-> resolve_stride(stride, stage, block),
     block_char |-> block_char(block, numerical_name),
     stage_char |-> stage_char(stage),
     activation |-> activation]

basic_3d(filters, stage, block, kernel_size, numerical_name, stride, activation) ==
    Closure("basic_3d", filters, stage, block, kernel_size, numerical_name,
            stride, activation)

bottleneck_3d(filters, stage, block, kernel_size, numerical_name, stride, activation) ==
    Closure("bottleneck_3d", filters, stage, block, kernel_size,
            numerical_name, stride, activation)

\* f'{role}{stage_char}{block_char}{suffix}'
BlockName(c, role, suffix) == role \o c.stage_char \o c.block_char \o suffix

basic_shortcut_always(c, inputs, n) ==
    <<ComplexConv3D(c.filters, <<1, 1>>, <<c.stride>>,
                    BlockName(c, "res", "_branch1"), inputs),
      ComplexBatchNormalization(BlockName(c, "bn", "_branch1"), n + 8)>>

\* basic_3d.f lines 85-91: the layers of the shortcut branch
basic_shortcut(c, inputs, n) ==
    IF c.block = 0
    THEN <<ComplexConv3D(c.filters, <<1, 1>>, <<c.stride>>,
                         BlockName(c, "res", "_branch1"), inputs),
           ComplexBatchNormalization(BlockName(c, "bn", "_branch1"), n + 8)>>
    ELSE <<>>

\* basic_3d.f lines 68-97, applied to tensor inputs when n layers exist
basic_f(c, inputs, n) ==
    LET main ==
          <<ZeroPadding3D(BlockName(c, "padding", "_branch2a"), inputs),
            ComplexConv3D(c.filters, <<c.kernel_size>>, <<c.stride>>,
                          BlockName(c, "res", "_branch2a"), n + 1),
            ComplexBatchNormalization(BlockName(c, "bn", "_branch2a"), n + 2),
            layer_activation(n + 3, c.activation,
                BlockName(c, "res", "_branch2a_" \o c.activation)),
            ZeroPadding3D(BlockName(c, "padding", "_branch2b"), n + 4),
            ComplexConv3D(c.filters, <<c.kernel_size>>, <<>>,
                          BlockName(c, "res", "_branch2b"), n + 5),
            ComplexBatchNormalization(BlockName(c, "bn", "_branch2b"), n + 6)>>
        sc == basic_shortcut(c, inputs, n)
        shortcut == IF sc = <<>> THEN inputs ELSE n + 7 + Len(sc)
        m == n + 7 + Len(sc)
    IN  main \o sc \o
        <<add(BlockName(c, "res", ""), n + 7, shortcut),
          layer_activation(m + 1, c.activation,
              BlockName(c, "res", "_" \o c.activation))>>

bottleneck_shortcut_unexpanded(c, inputs, n) ==
    IF c.block = 0
    THEN <<ComplexConv3D(c.filters, <<1, 1>>, <<c.stride>>,
                         BlockName(c, "res", "_branch1"), inputs),
           ComplexBatchNormalization(BlockName(c, "bn", "_branch1"), n + 10)>>
    ELSE <<>>

\* bottleneck_3d.f lines 173-179: the layers of the shortcut branch
bottleneck_shortcut(c, inputs, n) ==
    IF c.block = 0
    THEN <<ComplexConv3D(c.filters * 4, <<1, 1>>, <<c.stride>>,
                         BlockName(c, "res", "_branch1"), inputs),
           ComplexBatchNormalization(BlockName(c, "bn", "_branch1"), n + 10)>>
    ELSE <<>>

\* bottleneck_3d.f lines 151-185
bottleneck_f(c, inputs, n) ==
    LET main ==
          <<ComplexConv3D(c.filters, <<1>>, <<c.stride>>,
                          BlockName(c, "res", "_branch2a"), inputs),
            ComplexBatchNormalization(BlockName(c, "bn", "_branch2a"), n + 1),
            layer_activation(n + 2, c.activation,
                BlockName(c, "res", "_branch2a_" \o c.activation)),
            ZeroPadding3D(BlockName(c, "padding", "_branch2b"), n + 3),
            ComplexConv3D(c.filters, <<c.kernel_size>>, <<>>,
                          BlockName(c, "res", "_branch2b"), n + 4),
            ComplexBatchNormalization(BlockName(c, "bn", "_branch2b"), n + 5),
            layer_activation(n + 6, c.activation,
                BlockName(c, "res", "_branch2b_" \o c.activation)),
            ComplexConv3D(c.filters * 4, <<1>>, <<1, 1>>,
                          BlockName(c, "res", "_branch2c"), n + 7),
            ComplexBatchNormalization(BlockName(c, "bn", "_branch2c"), n + 8)>>
        sc == bottleneck_shortcut(c, inputs, n)
        shortcut == IF sc = <<>> THEN inputs ELSE n + 9 + Len(sc)
        m == n + 9 + Len(sc)
    IN  main \o sc \o
        <<add(BlockName(c, "res", ""), n + 9, shortcut),
          layer_activation(m + 1, c.activation,
              BlockName(c, "res", "_" \o c.activation))>>

\* block_func(...)(x): the layers the returned function creates
f(c, inputs, n) ==
    IF c.builder = "basic_3d" THEN basic_f(c, inputs, n)
    ELSE bottleneck_f(c, inputs, n)

----------------------------------------------------------------------------
(* Network assembler, resnet_models_2d.py *)

\* resnet_models_2d.py line 16 imports the 2d builders; they build the same
\* block as the 3d builders above, which stand in for them
basic_2d == "basic_3d"
bottleneck_2d == "bottleneck_3d"

block_func_call(bf, filters, stage, block, numerical_name, activation) ==
    IF bf = "basic_3d"
    THEN basic_3d(filters, stage, block, 3, numerical_name, None, activation)
    ELSE bottleneck_3d(filters, stage, block, 3, numerical_name, None,
                       activation)

\* [True] * len(num_blocks)
AllTrue(n) == [i \in 1..n |-> TRUE]

numerical_names_ignored(a) == AllTrue(Len(a.num_blocks))

\* lines 72-73
numerical_names(a) ==
    IF a.numerical_names = None
    THEN AllTrue(Len(a.num_blocks))
    ELSE a.numerical_names[1]

ComplexConv2D(filters, kernel_size, strides, name, x) ==
    Layer("ComplexConv2D", name, <<x>>, filters, kernel_size, strides, "")

ComplexMaxPooling2D(pool_size, strides, name, x) ==
    Layer("ComplexMaxPooling2D", name, <<x>>, 0, pool_size, strides, "")

ComplexAveragePooling2D(pool_size, strides, name, x) ==
    Layer("ComplexAveragePooling2D", name, <<x>>, 0, pool_size, strides, "")

GlobalAveragePooling2D(name, x) ==
    Layer("GlobalAveragePooling2D", name, <<x>>, 0, <<>>, <<>>, "")

SpectralPooling2D(name, x) ==
    Layer("SpectralPooling2D", name, <<x>>, 0, <<>>, <<>>, "")

\* keras.layers.Flatten() without a name: keras numbers it
Flatten(k, x) ==
    Layer("Flatten", "flatten_" \o str(k), <<x>>, 0, <<>>, <<>>, "")

Dense(kind, units, activation, name, x) ==
    Layer(kind, name, <<x>>, units, <<>>, <<>>, activation)

Stem_pools_by_default(a) ==
    LET s == <<ComplexConv2D(a.n_filters, <<7>>, <<2, 2>>, "conv1", 0),
               ComplexBatchNormalization("bn_conv1", 1),
               layer_activation(2, a.activation, "conv1_" \o a.activation)>>
    IN  IF a.pooling_func[1] = "average"
        THEN Append(s, ComplexAveragePooling2D(<<3, 3>>, <<2, 2>>, "pool1", 3))
        ELSE Append(s, ComplexMaxPooling2D(<<3, 3>>, <<2, 2>>, "pool1", 3))

\* lines 75-85: the stem, applied to the network input 0
Stem(a) ==
    LET s == <<ComplexConv2D(a.n_filters, <<7>>, <<2, 2>>, "conv1", 0),
               ComplexBatchNormalization("bn_conv1", 1),
               layer_activation(2, a.activation, "conv1_" \o a.activation)>>
    IN  IF a.pooling_func[1] = "max"
        THEN Append(s, ComplexMaxPooling2D(<<3, 3>>, <<2, 2>>, "pool1", 3))
        ELSE IF a.pooling_func[1] = "average"
        THEN Append(s, ComplexAveragePooling2D(<<3, 3>>, <<2, 2>>, "pool1", 3))
        ELSE s

\* lines 105-112: the pooling of the head, applied to tensor x
HeadPool(a, x) ==
    IF a.pooling_func[2] = "global_average"
    THEN <<GlobalAveragePooling2D("pool5", x)>>
    ELSE IF a.pooling_func[2] = "complex_average"
    THEN <<ComplexAveragePooling2D(<<>>, <<>>, "pool5", x)>>
    ELSE IF a.pooling_func[2] = "complex_max"
    THEN <<ComplexMaxPooling2D(<<>>, <<>>, "pool5", x)>>
    ELSE IF a.pooling_func[2] = "spectral_average"
    THEN <<SpectralPooling2D("pool5", x)>>
    ELSE <<>>

\* K.ndim(x_complex) at line 117: only the global pooling drops the spatial axes
ndim(a) == IF a.pooling_func[2] = "global_average" THEN 2 ELSE 4

\* lines 114-115
output_activation(a) ==
    IF a.output_activation = None THEN "softmax" ELSE a.output_activation[1]

\* lines 105-124: the layers of the head, applied to x when n layers exist
HeadLayers(a, x, n, k) ==
    LET pool == HeadPool(a, x)
        p    == IF pool = <<>> THEN x ELSE n + 1
        flat == IF ndim(a) > 2 THEN <<Flatten(k, p)>> ELSE <<>>
        q    == IF flat = <<>> THEN p ELSE n + Len(pool) + 1
        oa   == output_activation(a)
        name == "fc" \o str(a.classes)
    IN  pool \o flat \o
        <<IF startswith_complex(oa)
          THEN Dense("ComplexDense", a.classes, strip_complex(oa), name, q)
          ELSE Dense("Dense", a.classes, oa, name, q)>>

filters_not_doubled(n) == n

\* line 99: n_filters *= 2
double_filters(n) == n * 2

model_outputs_last_only(a, outs, x) == <<x>>

\* lines 126 and 129: the outputs handed to keras.Model.__init__
model_outputs(a, outs, x) == IF a.include_top THEN <<x>> ELSE outs

----------------------------------------------------------------------------
(* Depth presets, resnet_models_2d.py lines 131-557 *)

Presets == {"ResNet2D18", "ResNet2D34", "ResNet2D50", "ResNet2D101",
            "ResNet2D152", "ResNet2D200"}

SuperInit_drops_output_activation(u, num_blocks, names) ==
    [num_blocks |-> IF u.num_blocks = None THEN num_blocks
                    ELSE u.num_blocks[1],
     block_func |-> u.block_func, activation |-> u.activation,
     n_filters |-> u.n_filters, pooling_func |-> u.pooling_func,
     include_top |-> u.include_top, classes |-> u.classes,
     numerical_names |-> names, output_activation |-> None]

\* the super().__init__ call of a preset: positional pass-through
SuperInit(u, num_blocks, names) ==
    [num_blocks |-> IF u.num_blocks = None THEN num_blocks
                    ELSE u.num_blocks[1],
     block_func |-> u.block_func, activation |-> u.activation,
     n_filters |-> u.n_filters, pooling_func |-> u.pooling_func,
     include_top |-> u.include_top, classes |-> u.classes,
     numerical_names |-> names, output_activation |-> u.output_activation]

ResNet2D18(u) == SuperInit(u, <<2, 2, 2, 2>>, u.numerical_names)

ResNet2D34(u) == SuperInit(u, <<3, 4, 6, 3>>, u.numerical_names)

ResNet2D50(u) ==
    SuperInit(u, <<3, 4, 6, 3>>, Some(<<FALSE, FALSE, FALSE, FALSE>>))

ResNet2D101(u) ==
    SuperInit(u, <<3, 4, 23, 3>>, Some(<<FALSE, TRUE, TRUE, FALSE>>))

ResNet2D152(u) ==
    SuperInit(u, <<3, 8, 36, 3>>, Some(<<FALSE, TRUE, TRUE, FALSE>>))

ResNet2D200(u) ==
    SuperInit(u, <<3, 24, 36, 3>>, Some(<<FALSE, TRUE, TRUE, FALSE>>))

\* the defaults of a preset's signature
PresetDefaults(entry) ==
    [entry |-> entry, num_blocks |-> None,
     block_func |-> IF entry \in {"ResNet2D18", "ResNet2D34"}
                    THEN basic_2d ELSE bottleneck_2d,
     activation |-> "crelu", n_filters |-> 64,
     pooling_func |-> <<"max", "global_average">>,
     include_top |-> TRUE, classes |-> 1000,
     numerical_names |-> None, output_activation |-> Some("sigmoid")]

\* ResNet2D(inputs, num_blocks, block_func) with the defaults of lines 60-66,
\* numerical_names being passed or left None
BaseCall(num_blocks, block_func, names) ==
    [entry |-> "ResNet2D", num_blocks |-> Some(num_blocks),
     block_func |-> block_func, activation |-> "crelu", n_filters |-> 64,
     pooling_func |-> <<"max", "global_average">>,
     include_top |-> TRUE, classes |-> 1000,
     numerical_names |-> names, output_activation |-> None]

----------------------------------------------------------------------------
(* Constructor calls explored *)

Activations == {"crelu"}

NFilters == {16, 64}

OutputActivations == {None, Some("sigmoid"), Some("complex_sigmoid")}

\* pooling and head arguments given explicitly to the base assembler
HeadArgs ==
    {[pooling_func |-> <<"max", "global_average">>, include_top |-> TRUE,
      classes |-> 3, output_activation |-> None],
     [pooling_func |-> <<"max", "global_average">>, include_top |-> TRUE,
      classes |-> 0, output_activation |-> Some("sigmoid")],
     [pooling_func |-> <<"average", "complex_average">>, include_top |-> TRUE,
      classes |-> 3, output_activation |-> Some("complex_sigmoid")],
     [pooling_func |-> <<"spectral", "spectral_average">>,
      include_top |-> TRUE, classes |-> 10, output_activation |-> Some("sigmoid")],
     [pooling_func |-> <<"max", "global_average">>, include_top |-> FALSE,
      classes |-> 3, output_activation |-> None],
     [pooling_func |-> <<"spectral", "none">>, include_top |-> FALSE,
      classes |-> 0, output_activation |-> None],
     [pooling_func |-> <<"average", "none">>, include_top |-> TRUE,
      classes |-> 3, output_activation |-> Some("complex_softmax")],
     [pooling_func |-> <<"max", "global_average">>, include_top |-> TRUE,
      classes |-> 5, output_activation |-> Some("complex_relu")]}

\* num_blocks lists given explicitly
NumBlocks == UNION {[1..k -> 0..MaxBlocks] : k \in 1..MaxStages}

\* numerical_names given explicitly for a num_blocks list, or left None
NumericalNames(nb) == {None} \cup {Some(v) : v \in [1..Len(nb) -> BOOLEAN]}

BaseCalls ==
    UNION {
      {[entry |-> "ResNet2D", num_blocks |-> Some(nb), block_func |-> bf,
        activation |-> act, n_filters |-> 64,
        pooling_func |-> h.pooling_func, include_top |-> h.include_top,
        classes |-> h.classes, numerical_names |-> nn,
        output_activation |-> h.output_activation] :
          bf \in {basic_2d, bottleneck_2d}, act \in Activations,
          h \in HeadArgs, nn \in NumericalNames(nb)} : nb \in NumBlocks}

\* a preset called with its defaults, some of them overridden
PresetCalls ==
    {[PresetDefaults(e) EXCEPT !.include_top = top, !.classes = cl,
                               !.output_activation = oa] :
        e \in Presets, top \in BOOLEAN, cl \in {0, 1000},
        oa \in OutputActivations}
    \cup
    {[PresetDefaults(e) EXCEPT !.num_blocks = Some(<<1, 2>>),
                               !.n_filters = nf, !.numerical_names = nn,
                               !.include_top = top] :
        e \in Presets, nf \in NFilters, top \in BOOLEAN,
        nn \in {None, Some(<<FALSE, FALSE>>)}}

----------------------------------------------------------------------------
(* The session: constructor calls, one after the other *)

Fresh ==
    /\ layers' = <<>>
    /\ x_complex' = 0
    /\ n_filters' = 0
    /\ stage_id' = 0
    /\ block_id' = 0
    /\ outputs' = <<>>
    /\ calls' = <<>>
    /\ model' = None

Init ==
    /\ pc = "idle"
    /\ call = None
    /\ args = None
    /\ layers = <<>>
    /\ x_complex = 0
    /\ n_filters = 0
    /\ stage_id = 0
    /\ block_id = 0
    /\ outputs = <<>>
    /\ calls = <<>>
    /\ model = None
    /\ uid = 0
    /\ models = <<>>
    /\ fn = None

\* the finished construction, as the session remembers it
Finished ==
    [call |-> call, args |-> args, pc |-> pc, layers |-> layers,
     model |-> model]

\* a constructor is called with the arguments c
Start(c) ==
    /\ Fresh
    /\ call' = c
    /\ IF c.entry = "ResNet2D"
       THEN /\ pc' = "ResNet2D"
            /\ args' = [num_blocks |-> c.num_blocks[1],
                        block_func |-> c.block_func,
                        activation |-> c.activation,
                        n_filters |-> c.n_filters,
                        pooling_func |-> c.pooling_func,
                        include_top |-> c.include_top,
                        classes |-> c.classes,
                        numerical_names |-> c.numerical_names,
                        output_activation |-> c.output_activation]
       ELSE /\ pc' = "preset"
            /\ args' = None
    /\ UNCHANGED <<uid, fn>>

\* the first constructor call of the session
Construct ==
    /\ pc = "idle"
    /\ \E c \in BaseCalls \cup PresetCalls : Start(c)
    /\ UNCHANGED models

\* the same call once more
Rebuild ==
    /\ pc \in {"done", "failed"}
    /\ Len(models) + 1 < MaxBuilds
    /\ models' = Append(models, Finished)
    /\ Start(call)

\* after a preset built with its defaults: the base assembler called with the
\* preset's num_blocks, block_func and numerical_names
BaseEquivalent ==
    /\ pc = "done"
    /\ Len(models) + 1 < MaxBuilds
    /\ call.entry \in Presets
    /\ call = PresetDefaults(call.entry)
    /\ models' = Append(models, Finished)
    /\ Start(BaseCall(args.num_blocks, args.block_func, args.numerical_names))

\* a preset's __init__ up to its super().__init__ call
PresetInit(entry, resolved) ==
    /\ pc = "preset"
    /\ call.entry = entry
    /\ args' = resolved
    /\ pc' = "ResNet2D"
    /\ UNCHANGED <<call, layers, x_complex, n_filters, stage_id, block_id,
                   outputs, calls, model, uid, models, fn>>

ResNet2D18_init == PresetInit("ResNet2D18", ResNet2D18(call))
ResNet2D34_init == PresetInit("ResNet2D34", ResNet2D34(call))
ResNet2D50_init == PresetInit("ResNet2D50", ResNet2D50(call))
ResNet2D101_init == PresetInit("ResNet2D101", ResNet2D101(call))
ResNet2D152_init == PresetInit("ResNet2D152", ResNet2D152(call))
ResNet2D200_init == PresetInit("ResNet2D200", ResNet2D200(call))

\* ResNet2D.__init__ lines 70-87: the stem
ResNet2D_stem ==
    /\ pc = "ResNet2D"
    /\ layers' = Stem(args)
    /\ x_complex' = Len(layers')
    /\ n_filters' = args.n_filters
    /\ outputs' = <<>>
    /\ stage_id' = 0
    /\ block_id' = 0
    /\ pc' = "stages"
    /\ UNCHANGED <<call, args, calls, model, uid, models, fn>>

\* lines 90-97: one iteration of the block loop
ResNet2D_block ==
    /\ pc = "stages"
    /\ stage_id < Len(args.num_blocks)
    /\ block_id < args.num_blocks[stage_id + 1]
    /\ LET c == block_func_call(args.block_func, n_filters, stage_id, block_id,
                    block_id > 0 /\ numerical_names(args)[stage_id + 1],
                    args.activation)
           new == f(c, x_complex, Len(layers))
       IN  /\ layers' = layers \o new
           /\ x_complex' = Len(layers) + Len(new)
           /\ calls' = Append(calls, [fn |-> c, inputs |-> x_complex,
                                      out |-> Len(layers) + Len(new)])
    /\ block_id' = block_id + 1
    /\ UNCHANGED <<pc, call, args, n_filters, stage_id, outputs, model, uid,
                   models, fn>>

\* lines 99-101: the end of one iteration of the stage loop
ResNet2D_stage_end ==
    /\ pc = "stages"
    /\ stage_id < Len(args.num_blocks)
    /\ block_id = args.num_blocks[stage_id + 1]
    /\ n_filters' = double_filters(n_filters)
    /\ outputs' = Append(outputs, x_complex)
    /\ stage_id' = stage_id + 1
    /\ block_id' = 0
    /\ UNCHANGED <<pc, call, args, layers, x_complex, calls, model, uid,
                   models, fn>>

\* lines 103-104: the assertion of the head fails
ResNet2D_assert_fails ==
    /\ pc = "stages"
    /\ stage_id = Len(args.num_blocks)
    /\ args.include_top
    /\ ~(args.classes > 0)
    /\ pc' = "failed"
    /\ UNCHANGED <<call, args, layers, x_complex, n_filters, stage_id,
                   block_id, outputs, calls, model, uid, models, fn>>

\* lines 103-126: the classification head
ResNet2D_head ==
    /\ pc = "stages"
    /\ stage_id = Len(args.num_blocks)
    /\ args.include_top
    /\ args.classes > 0
    /\ LET k == IF ndim(args) > 2 THEN uid + 1 ELSE uid
           new == HeadLayers(args, x_complex, Len(layers), k)
           x == Len(layers) + Len(new)
       IN  /\ layers' = layers \o new
           /\ x_complex' = new[Len(new)].inputs[1]
           /\ model' = Some(model_outputs(args, outputs, x))
           /\ uid' = k
    /\ pc' = "done"
    /\ UNCHANGED <<call, args, n_filters, stage_id, block_id, outputs, calls,
                   models, fn>>

\* lines 127-129: no head, the stage features are the outputs
ResNet2D_features ==
    /\ pc = "stages"
    /\ stage_id = Len(args.num_blocks)
    /\ ~args.include_top
    /\ model' = Some(model_outputs(args, outputs, x_complex))
    /\ pc' = "done"
    /\ UNCHANGED <<call, args, layers, x_complex, n_filters, stage_id,
                   block_id, outputs, calls, uid, models, fn>>

Next ==
    \/ Construct
    \/ Rebuild
    \/ BaseEquivalent
    \/ ResNet2D18_init
    \/ ResNet2D34_init
    \/ ResNet2D50_init
    \/ ResNet2D101_init
    \/ ResNet2D152_init
    \/ ResNet2D200_init
    \/ ResNet2D_stem
    \/ ResNet2D_block
    \/ ResNet2D_stage_end
    \/ ResNet2D_assert_fails
    \/ ResNet2D_head
    \/ ResNet2D_features

Spec == Init /\ [][Next]_vars

----------------------------------------------------------------------------
(* Direct calls of the block builders *)

Strides == {None, Some(1), Some(2), Some(3)}

\* the arguments of one direct call of a block builder
BuilderCalls ==
    [builder : {"basic_3d", "bottleneck_3d"}, filters : NFilters,
     stage : 0..MaxStage, block : 0..MaxBlock, kernel_size : {3},
     numerical_name : BOOLEAN, stride : Strides, activation : Activations]

InitBlock ==
    /\ pc = "builder"
    /\ call \in BuilderCalls
    /\ args = None
    /\ layers = <<>>
    /\ x_complex = 0
    /\ n_filters = 0
    /\ stage_id = 0
    /\ block_id = 0
    /\ outputs = <<>>
    /\ calls = <<>>
    /\ model = None
    /\ uid = 0
    /\ models = <<>>
    /\ fn = None

\* basic_3d(filters, stage, block, kernel_size, numerical_name, stride, ...)
basic_3d_call ==
    /\ pc = "builder"
    /\ call.builder = "basic_3d"
    /\ fn' = Some(basic_3d(call.filters, call.stage, call.block,
                           call.kernel_size, call.numerical_name, call.stride,
                           call.activation))
    /\ pc' = "built"
    /\ UNCHANGED <<call, args, layers, x_complex, n_filters, stage_id,
                   block_id, outputs, calls, model, uid, models>>

\* bottleneck_3d(filters, stage, block, kernel_size, numerical_name, ...)
bottleneck_3d_call ==
    /\ pc = "builder"
    /\ call.builder = "bottleneck_3d"
    /\ fn' = Some(bottleneck_3d(call.filters, call.stage, call.block,
                                call.kernel_size, call.numerical_name,
                                call.stride, call.activation))
    /\ pc' = "built"
    /\ UNCHANGED <<call, args, layers, x_complex, n_filters, stage_id,
                   block_id, outputs, calls, model, uid, models>>

\* the returned function applied to the input tensor 0
f_apply ==
    /\ pc = "built"
    /\ layers' = f(fn[1], 0, 0)
    /\ x_complex' = Len(layers')
    /\ pc' = "applied"
    /\ UNCHANGED <<call, args, n_filters, stage_id, block_id, outputs, calls,
                   model, uid, models, fn>>

NextBlock ==
    \/ basic_3d_call
    \/ bottleneck_3d_call
    \/ f_apply

SpecBlock == InitBlock /\ [][NextBlock]_vars

----------------------------------------------------------------------------
(* Shapes of the tensors, as far as the layers' arguments fix them *)

ConvKinds == {"ComplexConv3D", "ComplexConv2D"}

\* the stride of a convolution: the strides argument (equal along all axes),
\* 1 when the argument is not passed
strides_of(l) == IF l.strides = <<>> THEN 1 ELSE l.strides[1]

\* the channel count of tensor t: set by the filters of the last convolution
\* on the way to it, kept by every other layer; an add has that of its
\* first operand
RECURSIVE Channels(_)
Channels(t) ==
    IF t = 0 THEN 0
    ELSE IF layers[t].kind \in ConvKinds THEN layers[t].filters
    ELSE Channels(layers[t].inputs[1])

\* the downsampling factor of tensor t relative to tensor base, from which
\* it is computed: the product of the strides of the convolutions between
RECURSIVE RelFactor(_, _)
RelFactor(t, base) ==
    IF t <= base THEN 1
    ELSE IF layers[t].kind \in ConvKinds
    THEN strides_of(layers[t]) * RelFactor(layers[t].inputs[1], base)
    ELSE RelFactor(layers[t].inputs[1], base)

----------------------------------------------------------------------------
(* Properties *)

\* the names of the layers created so far
LayerNames == {layers[i].name : i \in 1..Len(layers)}

\* C1: within one network under construction or built, no two layers (of the
\* stem, of any block, of the head) have the same name.
C1_LayerNamesUnique == Cardinality(LayerNames) = Len(layers)

\* a finished network with head whose stages repeat blocks under numerical naming
C1_Witness ==
    /\ pc = "done"
    /\ args.include_top
    /\ Len(args.num_blocks) > 1
    /\ \E i \in 1..Len(calls) : calls[i].fn.block_char = "b2"
    /\ \E i \in 1..Len(layers) : layers[i].name = "res3b2_branch2a"
    /\ Cardinality(LayerNames) > 20

\* the stride the claim states for a builder call with arguments c
ClaimedStride(c) ==
    IF c.stride # None THEN c.stride[1]
    ELSE IF c.block = 0 /\ c.stage > 0 THEN 2 ELSE 1

\* C2: in both builders an explicit stride is used unchanged, and a stride of
\* None resolves to 2 iff block = 0 and stage > 0, to 1 otherwise; the first
\* convolution of the main path uses it.
C2_StrideResolution ==
    /\ pc \in {"built", "applied"} => fn[1].stride = ClaimedStride(call)
    /\ pc = "applied" =>
         \E i \in 1..2 : /\ layers[i].kind = "ComplexConv3D"
                         /\ layers[i].strides = <<ClaimedStride(call)>>

\* a first block of a later stage, stride left None, resolved to 2
C2_Witness ==
    /\ pc = "applied"
    /\ call.stride = None
    /\ call.block = 0
    /\ call.stage > 0
    /\ fn[1].stride = 2

\* layer k is a 1x1 convolution of the block input with the resolved stride,
\* layer k + 1 normalises it and feeds the second operand of the add layer
IsProjection(k) ==
    /\ k + 1 <= Len(layers)
    /\ layers[k].kind = "ComplexConv3D"
    /\ layers[k].kernel_size = <<1, 1>>
    /\ layers[k].strides = <<fn[1].stride>>
    /\ layers[k].inputs = <<0>>
    /\ layers[k + 1].kind = "ComplexBatchNormalization"
    /\ layers[k + 1].inputs = <<k>>
    /\ layers[Len(layers) - 1].inputs[2] = k + 1

\* C3: in both builders the shortcut branch holds a projection (1x1
\* convolution with the resolved stride, then normalisation, on the block
\* input) iff block = 0; for block > 0 the shortcut operand of the add is the
\* block input itself.
C3_ShortcutProjection ==
    pc = "applied" =>
      /\ layers[Len(layers) - 1].kind = "add"
      /\ (\E k \in 1..Len(layers) : IsProjection(k)) <=> (call.block = 0)
      /\ call.block > 0 => layers[Len(layers) - 1].inputs[2] = 0

\* a bottleneck block 0 of a later stage, applied: it has its projection
C3_Witness ==
    /\ pc = "applied"
    /\ call.builder = "bottleneck_3d"
    /\ call.block = 0
    /\ fn[1].stride = 2
    /\ IsProjection(10)

\* the stage and the block index of the i-th builder invocation when the
\* stages hold nb[1], nb[2], ... blocks and are walked in order
RECURSIVE StageOf(_, _)
StageOf(nb, i) == IF i <= Head(nb) THEN 0 ELSE 1 + StageOf(Tail(nb), i - Head(nb))

RECURSIVE BlockOf(_, _)
BlockOf(nb, i) == IF i <= Head(nb) THEN i - 1 ELSE BlockOf(Tail(nb), i - Head(nb))

\* C4: every builder invocation of stage s gets n_filters * 2^s filters; the
\* invocations come in stage-major order with block indices 0..num_blocks[s]-1
\* and there are sum(num_blocks) of them when the loops are over; the
\* ResNet2D18 preset gives 8 blocks at 64, 64, 128, 128, 256, 256, 512, 512.
C4_FiltersAndOrder ==
    pc \in {"stages", "done", "failed"} =>
      /\ Len(calls) <= SumSeq(args.num_blocks)
      /\ \A i \in 1..Len(calls) :
           /\ calls[i].fn.stage = StageOf(args.num_blocks, i)
           /\ calls[i].fn.block = BlockOf(args.num_blocks, i)
           /\ calls[i].fn.filters = args.n_filters * Pow2(calls[i].fn.stage)
      /\ pc \in {"done", "failed"} => Len(calls) = SumSeq(args.num_blocks)
      /\ (pc = "done" /\ call = PresetDefaults("ResNet2D18")) =>
           [i \in 1..Len(calls) |-> calls[i].fn.filters]
             = <<64, 64, 128, 128, 256, 256, 512, 512>>

\* the depth-18 preset built with its defaults: 8 blocks, the last at 512
C4_Witness ==
    /\ pc = "done"
    /\ call = PresetDefaults("ResNet2D18")
    /\ Len(calls) = 8
    /\ calls[8].fn.filters = 512
    /\ calls[8].fn.stage = 3

\* the tensor held after stage s (counted from 1) of the finished loops: the
\* output of the last block of the stage, or what was held before the stage
\* when the stage has no block
RECURSIVE AfterStage(_)
AfterStage(s) ==
    IF s = 0 THEN Len(Stem(args))
    ELSE IF args.num_blocks[s] = 0 THEN AfterStage(s - 1)
    ELSE calls[SumSeq(SubSeq(args.num_blocks, 1, s))].out

\* C5: without head the model outputs are one tensor per stage, in stage
\* order, entry s being the output of the last block of stage s (a stage
\* without blocks repeats the tensor held before it); with head the model has
\* the single output of the final dense layer.
C5_ModelOutputs ==
    pc = "done" =>
      /\ ~args.include_top =>
           /\ Len(model[1]) = Len(args.num_blocks)
           /\ \A s \in 1..Len(args.num_blocks) :
                /\ model[1][s] = AfterStage(s)
                /\ args.num_blocks[s] > 0 =>
                     /\ calls[SumSeq(SubSeq(args.num_blocks, 1, s))].fn.stage
                          = s - 1
                     /\ calls[SumSeq(SubSeq(args.num_blocks, 1, s))].fn.block
                          = args.num_blocks[s] - 1
                     /\ layers[model[1][s]].name
                          = "res" \o ToString(s + 1)
                              \o calls[SumSeq(SubSeq(args.num_blocks, 1, s))]
                                   .fn.block_char
                              \o "_" \o args.activation
      /\ args.include_top =>
           /\ model[1] = <<Len(layers)>>
           /\ layers[Len(layers)].kind \in {"Dense", "ComplexDense"}
           /\ layers[Len(layers)].name = "fc" \o ToString(args.classes)

\* a headless network of two non-empty stages: two feature outputs
C5_Witness ==
    /\ pc = "done"
    /\ ~args.include_top
    /\ args.num_blocks = <<2, 1>>
    /\ Len(model[1]) = 2
    /\ model[1][1] < model[1][2]

\* C6: with the head requested and classes = 0 the construction fails its
\* precondition check before any layer is created: when the failure is
\* raised, no stem layer and no block layer exists.
C6_FailsBeforeAnyLayer ==
    pc = "failed" => layers = <<>>

\* the branch identifiers of the block layers
Branches == {"branch1", "branch2a", "branch2b", "branch2c"}

\* what may follow the underscore in a name of the pattern, read generously:
\* a branch, a branch with the activation appended, or the activation
BranchIds(act) == Branches \cup {b \o "_" \o act : b \in Branches} \cup {act}

\* {stage + 2}{block_char} of the builder call under way
NameCore == ToString(call.stage + 2) \o fn[1].block_char

\* C7 as stated: every layer name of a block is
\* {role}{stage+2}{block_char}_{branch}.
C7_AllNamesHaveBranch ==
    pc = "applied" =>
      \A i \in 1..Len(layers) :
        \E role \in {"res", "bn", "padding"}, br \in BranchIds(call.activation) :
          layers[i].name = role \o NameCore \o "_" \o br

\* C7 amended: convolution, normalisation and padding layers are named
\* {role}{stage+2}{block_char}_{branch} with role res, bn, padding; the add
\* layer is named res{stage+2}{block_char} with no underscore and no branch;
\* an activation layer is named res{stage+2}{block_char}_{branch}_{activation}
\* inside the main path and res{stage+2}{block_char}_{activation} at the end.
C7_NamePattern ==
    pc = "applied" =>
      \A i \in 1..Len(layers) :
        LET l == layers[i] IN
        /\ l.kind = "ComplexConv3D" =>
             \E br \in Branches : l.name = "res" \o NameCore \o "_" \o br
        /\ l.kind = "ComplexBatchNormalization" =>
             \E br \in Branches : l.name = "bn" \o NameCore \o "_" \o br
        /\ l.kind = "ZeroPadding3D" =>
             \E br \in Branches : l.name = "padding" \o NameCore \o "_" \o br
        /\ l.kind = "add" => l.name = "res" \o NameCore
        /\ l.kind = "layer_activation" =>
             \/ l.name = "res" \o NameCore \o "_" \o call.activation
             \/ \E br \in Branches :
                  l.name = "res" \o NameCore \o "_" \o br
                             \o "_" \o call.activation

\* block 1 of stage 1 under numerical naming: its add layer is "res3b1"
C7_Witness ==
    /\ pc = "applied"
    /\ call.stage = 1
    /\ call.block = 1
    /\ call.numerical_name
    /\ layers[Len(layers) - 1].kind = "add"
    /\ layers[Len(layers) - 1].name = "res3b1"
    /\ layers[2].name \in {"res3b1_branch2a", "bn3b1_branch2a"}

\* ch is the k-th lowercase letter
IsLetter(ch, k) == k \in 1..Len(Lowercase) /\ ch = Lowercase[k]

\* C8 as stated: block 0 yields "a"; every block b >= 1 yields the (b+1)-th
\* lowercase letter without numerical naming and "b{b}" with it.
C8_AlwaysALetter ==
    pc \in {"built", "applied"} =>
      /\ call.block = 0 => fn[1].block_char = "a"
      /\ (call.block >= 1 /\ ~call.numerical_name) =>
           IsLetter(fn[1].block_char, call.block + 1)
      /\ (call.block >= 1 /\ call.numerical_name) =>
           fn[1].block_char = "b" \o ToString(call.block)

\* C8 amended: block 0 yields "a"; a block b in 1..25 yields the (b+1)-th
\* lowercase letter without numerical naming, a block b >= 26 yields the
\* character 26 or more places after "a" ("{" for b = 26, "|" for 27), which
\* is no letter; with numerical naming every b >= 1 yields "b{b}".
C8_BlockChar ==
    pc \in {"built", "applied"} =>
      /\ call.block = 0 => fn[1].block_char = "a"
      /\ (call.block \in 1..25 /\ ~call.numerical_name) =>
           IsLetter(fn[1].block_char, call.block + 1)
      /\ (call.block >= 26 /\ ~call.numerical_name) =>
           /\ \A k \in 1..Len(Lowercase) : ~IsLetter(fn[1].block_char, k)
           /\ call.block = 26 => fn[1].block_char = "{"
           /\ call.block = 27 => fn[1].block_char = "|"
      /\ (call.block >= 1 /\ call.numerical_name) =>
           fn[1].block_char = "b" \o ToString(call.block)

\* block 26 without numerical naming: the alphabet is exhausted
C8_Witness ==
    /\ pc = "built"
    /\ call.block = 26
    /\ ~call.numerical_name
    /\ fn[1].block_char = "{"

\* the block of invocation i is named in the numerical form "b{n}"
IsNumerical(i) ==
    calls[i].fn.block_char = "b" \o ToString(calls[i].fn.block)

\* the block of invocation i is named by its letter
IsLettered(i) == IsLetter(calls[i].fn.block_char, calls[i].fn.block + 1)

\* a preset is being built, or was built, with all its defaults
PresetWithDefaults ==
    /\ pc \in {"stages", "done"}
    /\ call.entry \in Presets
    /\ call = PresetDefaults(call.entry)

\* C9 as stated: in every preset built with its defaults the numerical form is
\* used on stages 1 and 2 only, the first and the last stage use letters.
C9_NumericalOnlyInterior ==
    PresetWithDefaults =>
      \A i \in 1..Len(calls) :
        /\ IsNumerical(i) => calls[i].fn.stage \in {1, 2}
        /\ calls[i].fn.stage \in {0, 3} => IsLettered(i)

\* C9 amended: presets 101, 152 and 200 use the numerical form on stages 1
\* and 2 (for block > 0) and letters on stages 0 and 3; preset 50 uses letters
\* on every stage; presets 18 and 34 leave numerical_names None and so use
\* the numerical form for every block > 0 of every stage, the first and the
\* last included.
C9_PresetNaming ==
    PresetWithDefaults =>
      \A i \in 1..Len(calls) :
        LET c == calls[i].fn IN
        /\ c.block = 0 => c.block_char = "a"
        /\ (c.block > 0 /\ call.entry \in {"ResNet2D18", "ResNet2D34"}) =>
             IsNumerical(i)
        /\ (c.block > 0 /\ call.entry = "ResNet2D50") => IsLettered(i)
        /\ (c.block > 0 /\ call.entry
                \in {"ResNet2D101", "ResNet2D152", "ResNet2D200"}) =>
             IF c.stage \in {1, 2} THEN IsNumerical(i) ELSE IsLettered(i)

\* the depth-18 preset: "b1" on the first and on the last stage
C9_Witness ==
    /\ pc = "done"
    /\ call = PresetDefaults("ResNet2D18")
    /\ \E i \in 1..Len(calls) :
         calls[i].fn.stage = 0 /\ calls[i].fn.block_char = "b1"
    /\ \E i \in 1..Len(layers) : layers[i].name = "res5b1_branch2a"

\* the base assembler was called with the num_blocks, block_func and
\* numerical_names of the preset built just before with its defaults, all
\* else left at the assembler's defaults, and both networks are complete
BaseAfterPreset ==
    /\ pc = "done"
    /\ models # <<>>
    /\ LET prev == models[Len(models)] IN
         /\ prev.pc = "done"
         /\ prev.call.entry \in Presets
         /\ prev.call = PresetDefaults(prev.call.entry)
         /\ call = BaseCall(prev.args.num_blocks, prev.args.block_func,
                            prev.args.numerical_names)

\* a layer without its activation
KindAndName(l) == [l EXCEPT !.activation = ""]

\* C10 as stated: a preset built with its defaults gives the same sequence of
\* layers (kinds, names, head activation) as the base assembler called with
\* the preset's num_blocks, block_func and numerical_names and its own
\* defaults.
C10_SameAsBase ==
    BaseAfterPreset => layers = models[Len(models)].layers

\* C10 amended: the two sequences of layers agree in everything but the
\* activation of the final dense layer, which is the preset's default
\* "sigmoid" in the preset and "softmax" (output_activation None) in the base
\* assembler.
C10_SameButHeadActivation ==
    BaseAfterPreset =>
      LET prev == models[Len(models)].layers IN
      /\ Len(layers) = Len(prev)
      /\ \A i \in 1..Len(layers) :
           /\ KindAndName(layers[i]) = KindAndName(prev[i])
           /\ i < Len(layers) => layers[i] = prev[i]
      /\ layers[Len(layers)].activation = "softmax"
      /\ prev[Len(prev)].activation = "sigmoid"

\* the depth-50 preset, then the base assembler with its configuration
C10_Witness ==
    /\ BaseAfterPreset
    /\ models[Len(models)].call.entry = "ResNet2D50"
    /\ args.num_blocks = <<3, 4, 6, 3>>
    /\ layers[Len(layers)].name = "fc1000"
    /\ layers[Len(layers)].activation = "softmax"

\* the output activation in force: softmax when none is specified
RequestedActivation ==
    IF args.output_activation = None THEN "softmax"
    ELSE args.output_activation[1]

\* C11: with the head requested the final fully-connected layer has `classes`
\* units; it is the complex dense layer, with the tag stripped from the
\* activation, iff the output activation begins with "complex_", else the
\* standard dense layer with the activation unchanged; None means softmax.
C11_FinalDense ==
    (pc = "done" /\ args.include_top) =>
      LET fc == layers[Len(layers)]
          oa == RequestedActivation
      IN
      /\ fc.filters = args.classes
      /\ fc.kind \in {"Dense", "ComplexDense"}
      /\ fc.kind = "ComplexDense" <=>
           \E n \in 0..Len(oa) : oa = complex_prefix \o SubSeq(oa, n + 1, Len(oa))
      /\ fc.kind = "ComplexDense" => oa = complex_prefix \o fc.activation
      /\ fc.kind = "Dense" => fc.activation = oa
      /\ \A i \in 1..(Len(layers) - 1) :
           layers[i].kind \notin {"Dense", "ComplexDense"}

\* a head built for a tagged activation: complex dense layer, tag stripped
C11_Witness ==
    /\ pc = "done"
    /\ args.include_top
    /\ args.output_activation = Some("complex_relu")
    /\ layers[Len(layers)].kind = "ComplexDense"
    /\ layers[Len(layers)].activation = "relu"
    /\ layers[Len(layers)].filters = 5

\* the positions of the layers named "pool1"
Pool1 == {i \in 1..Len(layers) : layers[i].name = "pool1"}

\* the tensor the first layer after the stem consumes, if there is one
AfterStemInput(k) ==
    Len(layers) > k => layers[k + 1].inputs = <<k>>

\* C12: when pooling_func[0] is neither "max" nor "average" no "pool1" layer
\* is created, no error is raised and the output of the stem activation goes
\* straight into the first residual block; for "max" and "average" exactly
\* one "pool1" layer of that kind follows the stem activation.
C12_StemPooling ==
    pc \in {"stages", "done", "failed"} =>
      /\ layers[3].kind = "layer_activation"
      /\ args.pooling_func[1] \notin {"max", "average"} =>
           /\ Pool1 = {}
           /\ AfterStemInput(3)
           /\ calls # <<>> => calls[1].inputs = 3
           /\ pc = "failed" => (args.include_top /\ args.classes = 0)
      /\ args.pooling_func[1] \in {"max", "average"} =>
           /\ Pool1 = {4}
           /\ layers[4].inputs = <<3>>
           /\ layers[4].kind = IF args.pooling_func[1] = "max"
                               THEN "ComplexMaxPooling2D"
                               ELSE "ComplexAveragePooling2D"
           /\ AfterStemInput(4)
           /\ calls # <<>> => calls[1].inputs = 4

\* a network built with an unrecognized stem pooling: its first block
\* consumes the stem activation
C12_Witness ==
    /\ pc = "done"
    /\ args.pooling_func[1] = "spectral"
    /\ Pool1 = {}
    /\ calls # <<>>
    /\ calls[1].inputs = 3
    /\ layers[4].name \in {"padding2a_branch2a", "res2a_branch2a"}

\* the names of the layers of a list of layers
NamesOf(ls) == {ls[i].name : i \in 1..Len(ls)}

\* the same constructor call was completed twice in a row
BuiltTwice ==
    /\ pc = "done"
    /\ models # <<>>
    /\ models[Len(models)].pc = "done"
    /\ models[Len(models)].call = call

\* C13: building the same configuration twice yields identical sets of layer
\* names: the names depend on the arguments only, not on what an earlier
\* build left behind.
C13_SameNamesOnRebuild ==
    BuiltTwice => NamesOf(layers) = NamesOf(models[Len(models)].layers)

\* the main-path output channel count of a block: filters for the basic
\* block, filters * 4 for the bottleneck block
BlockChannels(c) ==
    IF c.builder = "basic_3d" THEN c.filters ELSE c.filters * 4

\* the first convolution among the layers after position k
FirstConvAfter(k) ==
    CHOOSE j \in (k + 1)..Len(layers) :
      /\ layers[j].kind \in ConvKinds
      /\ \A h \in (k + 1)..(j - 1) : layers[h].kind \notin ConvKinds

\* C14: in every network the assembler builds, the two operands of every
\* residual add agree in channel count and in downsampling factor: a block
\* with block > 0 has stride 1, the block input as shortcut and an input
\* channel count equal to its main-path output channel count (filters, or
\* filters * 4 for the bottleneck); a block with block = 0 uses one stride on
\* the first main convolution and on the shortcut convolution and one
\* channel count on the last main convolution and on the shortcut convolution.
C14_AddOperandsAgree ==
    pc \in {"stages", "done", "failed"} =>
      \A i \in 1..Len(calls) :
        LET c    == calls[i].fn
            inp  == calls[i].inputs
            plus == layers[calls[i].out - 1]
            main == plus.inputs[1]
            sc   == plus.inputs[2]
        IN  /\ plus.kind = "add"
            /\ Channels(main) = Channels(sc)
            /\ RelFactor(main, inp) = RelFactor(sc, inp)
            /\ Channels(main) = BlockChannels(c)
            /\ c.block > 0 =>
                 /\ c.stride = 1
                 /\ sc = inp
                 /\ Channels(inp) = BlockChannels(c)
                 /\ RelFactor(main, inp) = 1
            /\ c.block = 0 =>
                 /\ layers[sc - 1].kind \in ConvKinds
                 /\ layers[sc - 1].inputs = <<inp>>
                 /\ layers[sc - 1].strides = <<c.stride>>
                 /\ layers[FirstConvAfter(inp)].strides = <<c.stride>>
                 /\ layers[main - 1].kind \in ConvKinds
                 /\ layers[main - 1].filters = layers[sc - 1].filters
                 /\ RelFactor(main, inp) = c.stride

\* a bottleneck network whose second stage opens with a projection of stride
\* 2 and goes on with an identity block at filters * 4 channels
C14_Witness ==
    /\ pc = "done"
    /\ args.block_func = "bottleneck_3d"
    /\ \E i \in 1..Len(calls) :
         /\ i > 1
         /\ calls[i].fn.block = 1
         /\ calls[i].fn.stage = 1
         /\ calls[i - 1].fn.stride = 2
         /\ RelFactor(layers[calls[i - 1].out - 1].inputs[2],
                      calls[i - 1].inputs) = 2
         /\ Channels(calls[i].inputs) = calls[i].fn.filters * 4
         /\ layers[calls[i].out - 1].inputs[2] = calls[i].inputs

====
